---- MODULE Spec2Model ----
(***************************************************************************)
(* 3cx-health-check: the polling / evaluation / reporting loop.            *)
(*                                                                         *)
(* The repository holds two sibling programs:                              *)
(*   "console" : src/unnamed/part_001 (checkStatus evaluates thresholds)   *)
(*   "metrics" : src/src/main.ts      (checkStatus records prom metrics)   *)
(* Both share loadConfig, reportSuccess, reportFailure, sleep and the      *)
(* while(true) loop with the .then(...).catch(...) promise chain.          *)
(***************************************************************************)
EXTENDS Integers, Sequences, FiniteSets, TLC

VARIABLES
    variant,          \* which of the two programs runs
    cfg,              \* Config, built once by loadConfig
    pc,               \* position of the poll loop
    cycles,           \* number of loop iterations started
    systemStatus,     \* value getSystemStatus resolved with in this cycle
    acquired,         \* TRUE iff getSystemStatus resolved in this cycle
    p,                \* state of the promise chain awaited by the loop
    sent,             \* requests issued to the health-check endpoint in this cycle
    transportFailed,  \* TRUE iff a health-check request of this cycle rejected
    gauges,           \* prom-client gauges, by series name
    activeCallsCounter, \* pbx_active_calls_counter
    pollTime,         \* number of observations of the pbx_polls summary
    metricsThrew,     \* TRUE iff updateMetrics threw in this cycle (caught, logged)
    recorded,         \* TRUE iff updateMetrics has run in this cycle
    inflight,         \* requests awaiting their response, each with its cycle
    steps,            \* the effects of this cycle so far, in program order
    recCount,         \* number of updateMetrics calls so far
    sumCalls,         \* sum of CallsActive over the calls that did not throw
    allOk,            \* TRUE iff no updateMetrics call has thrown so far
    cur,              \* the snapshot of the latest updateMetrics call
    prev,             \* the snapshot of the updateMetrics call before it
    scrape,           \* gauge values of the latest GET /metrics response
    reads,            \* number of GET /metrics requests served
    scrapeAt,         \* recCount when the latest response was produced
    exitCode,         \* exit status of the process, Undefined while it runs
    clientsCreated,   \* number of createClient calls
    http,             \* the client the loop holds: 0 none, k the k-th created
    acqClient         \* the client the acquisition of this cycle was issued on

vars == <<variant, cfg, pc, cycles, systemStatus, acquired, p, sent,
          transportFailed, gauges, activeCallsCounter, pollTime, metricsThrew,
          recorded, inflight, steps, recCount, sumCalls, allOk, cur, prev,
          scrape, reads, scrapeAt, exitCode, clientsCreated, http, acqClient>>

\* the variables of the recording history, of the /metrics responses and of
\* the process
histVars == <<recCount, sumCalls, allOk, cur, prev>>
scrapeVars == <<scrape, reads, scrapeAt>>
procVars == <<exitCode, clientsCreated>>

-----------------------------------------------------------------------------
(* Bounds of the model *)

MaxCycles == 3

\* GET /metrics requests served in a run
MaxReads == 1

-----------------------------------------------------------------------------
(* Values *)

\* JavaScript's undefined, for an optional Config entry or an absent field
Undefined == 0 - 1

\* cfg.Interval when INTERVAL_SEC is not set
Null == 0 - 2

\* the fixed usage threshold of the three usage checks
UsageLimit == 75

\* template-literal interpolation ${v}
Str(v) == IF v = Undefined THEN "undefined" ELSE ToString(v)

\* a thrown string
Thrown(text) == [type |-> "string", text |-> text]

\* a thrown Error object
ErrorObj(message) == [type |-> "object", text |-> message]

Resolved == [state |-> "resolved", value |-> Thrown("")]
Rejected(e) == [state |-> "rejected", value |-> e]
Pending == [state |-> "pending", value |-> Thrown("")]

-----------------------------------------------------------------------------
(* Status snapshots (ISystemStatus) *)

\* a snapshot that passes every check
Nominal ==
    [Activated |-> TRUE, CallsActive |-> 2, CpuUsage |-> 10, DiskUsage |-> 20,
     ExtensionsTotal |-> 8, ExtensionsRegistered |-> 5, FreeDiskSpace |-> 50,
     FreeVirtualMemory |-> 60, FreePhysicalMemory |-> 40, MemoryUsage |-> 30,
     PhysicalMemoryUsage |-> 35, TotalDiskSpace |-> 90, TotalPhysicalMemory |-> 70,
     TotalVirtualMemory |-> 95, TrunksRegistered |-> 2, TrunksTotal |-> 3,
     HasNotRunningServices |-> FALSE, HasUnregisteredSystemExtensions |-> FALSE]

\* what getSystemStatus may resolve with in the poll loop
LoopSnapshots ==
    { Nominal,
      [Nominal EXCEPT !.CpuUsage = 80],
      [Nominal EXCEPT !.DiskUsage = 80],
      [Nominal EXCEPT !.Activated = FALSE, !.CpuUsage = 80],
      [Nominal EXCEPT !.ExtensionsRegistered = 3, !.CallsActive = 1],
      [Nominal EXCEPT !.FreeVirtualMemory = Undefined, !.CallsActive = 0,
                      !.TrunksTotal = 4] }

\* what getSystemStatus may reject with
AcquisitionErrors == { ErrorObj("connect ECONNREFUSED"), Thrown("unauthorized") }

\* what a request to the health-check endpoint may reject with
TransportErrors == { ErrorObj("Network Error") }

\* the snapshots the evaluator is exercised on: every combination of passing,
\* boundary and violating values of the fields it reads
EvalSnapshots ==
    { [Nominal EXCEPT !.Activated = a, !.ExtensionsRegistered = e,
                      !.HasNotRunningServices = s,
                      !.HasUnregisteredSystemExtensions = u,
                      !.TrunksRegistered = t, !.PhysicalMemoryUsage = m,
                      !.CpuUsage = c, !.DiskUsage = d] :
        a \in BOOLEAN, e \in {4, 5}, s \in BOOLEAN, u \in BOOLEAN,
        t \in {1, 2}, m \in {75, 76}, c \in {75, 80}, d \in {75, 90} }

\* the values PBX_MIN_EXTENSIONS / PBX_MIN_TRUNKS may give
MinExtensionsValues == {Undefined, 5}
MinTrunksValues == {Undefined, 2}

\* the values INTERVAL_SEC may give (milliseconds)
IntervalValues == {Null, 1000}

-----------------------------------------------------------------------------
(* Threshold evaluation: the body of checkStatus in the console program    *)

Healthy == [ok |-> TRUE, reason |-> ""]
Unhealthy(reason) == [ok |-> FALSE, reason |-> reason]

\* JavaScript's a < b and a > b on numbers-or-undefined
JsLess(a, b) == a # Undefined /\ b # Undefined /\ a < b
JsGreater(a, b) == a # Undefined /\ b # Undefined /\ a > b

\* Evaluate with the minimum-extensions boundary made exclusive
EvaluateExclusiveMinimum(s, c) ==
    IF ~s.Activated THEN
        Unhealthy("System is not activated")
    ELSE IF c.pbxMinExtensions # Undefined
            /\ ~JsGreater(s.ExtensionsRegistered, c.pbxMinExtensions) THEN
        Unhealthy("Expected at least " \o Str(c.pbxMinExtensions)
                  \o " extensions to be registered. Found "
                  \o Str(s.ExtensionsRegistered))
    ELSE IF s.HasNotRunningServices THEN
        Unhealthy("System reports failed services")
    ELSE IF s.HasUnregisteredSystemExtensions THEN
        Unhealthy("System reports unregistered system extension")
    ELSE IF c.pbxMinTrunks # Undefined
            /\ JsLess(s.TrunksRegistered, c.pbxMinTrunks) THEN
        Unhealthy("Expected at least " \o Str(c.pbxMinTrunks)
                  \o " trunks to be registered. Found "
                  \o Str(s.TrunksRegistered))
    ELSE IF JsGreater(s.PhysicalMemoryUsage, UsageLimit) THEN
        Unhealthy("Physical memory usage is at " \o Str(s.PhysicalMemoryUsage))
    ELSE IF JsGreater(s.CpuUsage, UsageLimit) THEN
        Unhealthy("CPU usage is at " \o Str(s.CpuUsage))
    ELSE IF JsGreater(s.DiskUsage, UsageLimit) THEN
        Unhealthy("Disk usage is at " \o Str(s.CpuUsage))
    ELSE
        Healthy

\* Evaluate with the trunks check moved ahead of the two service checks
EvaluateTrunksBeforeServices(s, c) ==
    IF ~s.Activated THEN
        Unhealthy("System is not activated")
    ELSE IF c.pbxMinExtensions # Undefined
            /\ JsLess(s.ExtensionsRegistered, c.pbxMinExtensions) THEN
        Unhealthy("Expected at least " \o Str(c.pbxMinExtensions)
                  \o " extensions to be registered. Found "
                  \o Str(s.ExtensionsRegistered))
    ELSE IF c.pbxMinTrunks # Undefined
            /\ JsLess(s.TrunksRegistered, c.pbxMinTrunks) THEN
        Unhealthy("Expected at least " \o Str(c.pbxMinTrunks)
                  \o " trunks to be registered. Found "
                  \o Str(s.TrunksRegistered))
    ELSE IF s.HasNotRunningServices THEN
        Unhealthy("System reports failed services")
    ELSE IF s.HasUnregisteredSystemExtensions THEN
        Unhealthy("System reports unregistered system extension")
    ELSE IF JsGreater(s.PhysicalMemoryUsage, UsageLimit) THEN
        Unhealthy("Physical memory usage is at " \o Str(s.PhysicalMemoryUsage))
    ELSE IF JsGreater(s.CpuUsage, UsageLimit) THEN
        Unhealthy("CPU usage is at " \o Str(s.CpuUsage))
    ELSE IF JsGreater(s.DiskUsage, UsageLimit) THEN
        Unhealthy("Disk usage is at " \o Str(s.CpuUsage))
    ELSE
        Healthy

Evaluate(s, c) ==
    IF ~s.Activated THEN
        Unhealthy("System is not activated")
    ELSE IF c.pbxMinExtensions # Undefined
            /\ JsLess(s.ExtensionsRegistered, c.pbxMinExtensions) THEN
        Unhealthy("Expected at least " \o Str(c.pbxMinExtensions)
                  \o " extensions to be registered. Found "
                  \o Str(s.ExtensionsRegistered))
    ELSE IF s.HasNotRunningServices THEN
        Unhealthy("System reports failed services")
    ELSE IF s.HasUnregisteredSystemExtensions THEN
        Unhealthy("System reports unregistered system extension")
    ELSE IF c.pbxMinTrunks # Undefined
            /\ JsLess(s.TrunksRegistered, c.pbxMinTrunks) THEN
        Unhealthy("Expected at least " \o Str(c.pbxMinTrunks)
                  \o " trunks to be registered. Found "
                  \o Str(s.TrunksRegistered))
    ELSE IF JsGreater(s.PhysicalMemoryUsage, UsageLimit) THEN
        Unhealthy("Physical memory usage is at " \o Str(s.PhysicalMemoryUsage))
    ELSE IF JsGreater(s.CpuUsage, UsageLimit) THEN
        Unhealthy("CPU usage is at " \o Str(s.CpuUsage))
    ELSE IF JsGreater(s.DiskUsage, UsageLimit) THEN
        Unhealthy("Disk usage is at " \o Str(s.CpuUsage))
    ELSE
        Healthy

-----------------------------------------------------------------------------
(* Metrics recording: updateMetrics in the metrics program                 *)

\* the gauges, by exported series name
GaugeNames ==
    { "pbx_active_calls", "pbx_cpu_usage", "pbx_disk_usage",
      "pbx_extensions_total", "pbx_extensions_registered", "pbx_disk_free",
      "pbx_memory_virtual_free", "pbx_memory_physical_free",
      "pbx_memory_virtual_used", "pbx_memory_physical_used", "pbx_disk_total",
      "pbx_memory_physical_total", "pbx_memory_virtual_total",
      "pbx_trunks_registered", "pbx_trunks_total" }

\* the statements of updateMetrics, in program order
UpdateSteps ==
    << [op |-> "set", series |-> "pbx_cpu_usage", field |-> "CpuUsage"],
       [op |-> "inc", series |-> "pbx_active_calls_counter", field |-> "CallsActive"],
       [op |-> "set", series |-> "pbx_active_calls", field |-> "CallsActive"],
       [op |-> "set", series |-> "pbx_disk_usage", field |-> "DiskUsage"],
       [op |-> "set", series |-> "pbx_extensions_total", field |-> "ExtensionsTotal"],
       [op |-> "set", series |-> "pbx_extensions_registered", field |-> "ExtensionsRegistered"],
       [op |-> "set", series |-> "pbx_disk_free", field |-> "FreeDiskSpace"],
       [op |-> "set", series |-> "pbx_memory_virtual_free", field |-> "FreeVirtualMemory"],
       [op |-> "set", series |-> "pbx_memory_physical_free", field |-> "FreePhysicalMemory"],
       [op |-> "set", series |-> "pbx_memory_virtual_used", field |-> "MemoryUsage"],
       [op |-> "set", series |-> "pbx_memory_physical_used", field |-> "PhysicalMemoryUsage"],
       [op |-> "set", series |-> "pbx_disk_total", field |-> "TotalDiskSpace"],
       [op |-> "set", series |-> "pbx_memory_physical_total", field |-> "TotalPhysicalMemory"],
       [op |-> "set", series |-> "pbx_memory_virtual_total", field |-> "TotalVirtualMemory"],
       [op |-> "set", series |-> "pbx_trunks_registered", field |-> "TrunksRegistered"],
       [op |-> "set", series |-> "pbx_trunks_total", field |-> "TrunksTotal"] >>

\* Gauge.set(v) throws a TypeError when v is not a number
GaugeSetThrows(v) == v = Undefined

\* Counter.inc(v) adds 1 when v is undefined
CounterIncrement(v) == IF v = Undefined THEN 1 ELSE v

\* ApplyStep with the counter set to the current call count instead of
\* incremented by it
ApplyStepCounterSet(m, step, stats) ==
    LET v == stats[step.field] IN
    IF step.op = "inc" THEN
        [m EXCEPT !.counter = CounterIncrement(v)]
    ELSE IF GaugeSetThrows(v) THEN
        [m EXCEPT !.threw = TRUE]
    ELSE
        [m EXCEPT !.gauges[step.series] = v]

\* one statement of updateMetrics applied to the metrics state m
ApplyStep(m, step, stats) ==
    LET v == stats[step.field] IN
    IF step.op = "inc" THEN
        [m EXCEPT !.counter = @ + CounterIncrement(v)]
    ELSE IF GaugeSetThrows(v) THEN
        [m EXCEPT !.threw = TRUE]
    ELSE
        [m EXCEPT !.gauges[step.series] = v]

\* statements i.. of updateMetrics; the first throw abandons the rest
RECURSIVE RunSteps(_, _, _)
RunSteps(m, stats, i) ==
    IF i > Len(UpdateSteps) \/ m.threw THEN m
    ELSE RunSteps(ApplyStep(m, UpdateSteps[i], stats), stats, i + 1)

updateMetrics(g, ctr, stats) ==
    RunSteps([gauges |-> g, counter |-> ctr, threw |-> FALSE], stats, 1)

-----------------------------------------------------------------------------
(* Health reporting *)

\* reportFailure's conversion of the rejection value to the POST body
FailureBody(error) ==
    IF error.type = "object" THEN "Error: " \o error.text ELSE error.text

SuccessRequest == [method |-> "GET", url |-> "/ping/uid", body |-> ""]
FailureRequest(error) ==
    [method |-> "POST", url |-> "/ping/uid/fail", body |-> FailureBody(error)]

-----------------------------------------------------------------------------
(* The poll loop *)

\* `let systemStatus` before getSystemStatus has resolved
NoStatus ==
    [Activated |-> FALSE, CallsActive |-> Undefined, CpuUsage |-> Undefined,
     DiskUsage |-> Undefined, ExtensionsTotal |-> Undefined,
     ExtensionsRegistered |-> Undefined, FreeDiskSpace |-> Undefined,
     FreeVirtualMemory |-> Undefined, FreePhysicalMemory |-> Undefined,
     MemoryUsage |-> Undefined, PhysicalMemoryUsage |-> Undefined,
     TotalDiskSpace |-> Undefined, TotalPhysicalMemory |-> Undefined,
     TotalVirtualMemory |-> Undefined, TrunksRegistered |-> Undefined,
     TrunksTotal |-> Undefined, HasNotRunningServices |-> FALSE,
     HasUnregisteredSystemExtensions |-> FALSE]

Configs ==
    [Interval : IntervalValues, pbxMinExtensions : MinExtensionsValues,
     pbxMinTrunks : MinTrunksValues]

\* the promise checkStatus returns, once getSystemStatus resolved with s
checkStatusSettles(v, s, c) ==
    IF v = "console" THEN
        LET verdict == Evaluate(s, c) IN
        IF verdict.ok THEN Resolved ELSE Rejected(Thrown(verdict.reason))
    ELSE
        Resolved

Init ==
    /\ variant \in {"console", "metrics"}
    /\ cfg \in Configs
    /\ pc = "createClient"
    /\ cycles = 0
    /\ systemStatus = NoStatus
    /\ acquired = FALSE
    /\ p = Pending
    /\ sent = << >>
    /\ transportFailed = FALSE
    /\ gauges = [n \in GaugeNames |-> 0]
    /\ activeCallsCounter = 0
    /\ pollTime = 0
    /\ metricsThrew = FALSE
    /\ recorded = FALSE
    /\ inflight = {}
    /\ steps = << >>
    /\ recCount = 0
    /\ sumCalls = 0
    /\ allOk = TRUE
    /\ cur = NoStatus
    /\ prev = NoStatus
    /\ scrape = [n \in GaugeNames |-> 0]
    /\ reads = 0
    /\ scrapeAt = 0
    /\ exitCode = Undefined
    /\ clientsCreated = 1
    /\ http = 0
    /\ acqClient = 0

\* await createClient(...) resolves
CreateClientResolve ==
    /\ pc = "createClient"
    /\ pc' = "top"
    /\ http' = clientsCreated
    /\ UNCHANGED <<variant, cfg, cycles, systemStatus, acquired, p, sent,
                   transportFailed, gauges, activeCallsCounter, pollTime,
                   metricsThrew, recorded, inflight,
                   steps, histVars, scrapeVars, procVars, acqClient>>

\* await createClient(...) rejects: nothing catches it
CreateClientReject ==
    /\ pc = "createClient"
    /\ pc' = "connectFailed"
    /\ \E e \in AcquisitionErrors : p' = Rejected(e)
    /\ UNCHANGED <<variant, cfg, cycles, systemStatus, acquired, sent,
                   transportFailed, gauges, activeCallsCounter, pollTime,
                   metricsThrew, recorded, inflight,
                   steps, histVars, scrapeVars, procVars, http, acqClient>>

\* StartCycle with a new client created after a cycle whose acquisition failed
StartCycleReconnects ==
    /\ pc = "top"
    /\ cycles < MaxCycles
    /\ cycles' = cycles + 1
    /\ pc' = "getSystemStatus"
    /\ systemStatus' = NoStatus
    /\ acquired' = FALSE
    /\ p' = Pending
    /\ sent' = << >>
    /\ transportFailed' = FALSE
    /\ metricsThrew' = FALSE
    /\ recorded' = FALSE
    /\ inflight' = inflight \cup {[op |-> "getSystemStatus", cycle |-> cycles + 1]}
    /\ steps' = (IF variant = "metrics" THEN <<"startTimer">> ELSE << >>)
                \o <<"getSystemStatus">>
    /\ clientsCreated' = IF cycles >= 1 /\ ~acquired THEN clientsCreated + 1
                         ELSE clientsCreated
    /\ http' = clientsCreated'
    /\ acqClient' = http'
    /\ UNCHANGED <<variant, cfg, gauges, activeCallsCounter, pollTime, histVars,
                   scrapeVars, exitCode>>

\* while(true): checkStatus is called, the timer starts, getSystemStatus is issued
StartCycle ==
    /\ pc = "top"
    /\ cycles < MaxCycles
    /\ cycles' = cycles + 1
    /\ pc' = "getSystemStatus"
    /\ systemStatus' = NoStatus
    /\ acquired' = FALSE
    /\ p' = Pending
    /\ sent' = << >>
    /\ transportFailed' = FALSE
    /\ metricsThrew' = FALSE
    /\ recorded' = FALSE
    /\ inflight' = inflight \cup {[op |-> "getSystemStatus", cycle |-> cycles + 1]}
    /\ steps' = (IF variant = "metrics" THEN <<"startTimer">> ELSE << >>)
                \o <<"getSystemStatus">>
    /\ acqClient' = http
    /\ UNCHANGED <<variant, cfg, gauges, activeCallsCounter, pollTime,
                   histVars, scrapeVars, procVars, http>>

\* GetSystemStatusResolve without the try/catch around updateMetrics
GetSystemStatusResolveNoCatch ==
    /\ pc = "getSystemStatus"
    /\ \E s \in LoopSnapshots :
        /\ systemStatus' = s
        /\ acquired' = TRUE
        /\ IF variant = "metrics" THEN
               LET m == updateMetrics(gauges, activeCallsCounter, s) IN
               /\ pollTime' = pollTime + 1
               /\ gauges' = m.gauges
               /\ activeCallsCounter' = m.counter
               /\ metricsThrew' = m.threw
               /\ recorded' = TRUE
               /\ steps' = steps \o <<"stopTimer", "updateMetrics">>
               /\ recCount' = recCount + 1
               /\ sumCalls' = IF m.threw THEN sumCalls ELSE sumCalls + s.CallsActive
               /\ allOk' = (allOk /\ ~m.threw)
               /\ prev' = cur
               /\ cur' = s
               /\ p' = IF m.threw
                       THEN Rejected(ErrorObj("Value is not a valid number"))
                       ELSE checkStatusSettles(variant, s, cfg)
           ELSE
               /\ p' = checkStatusSettles(variant, s, cfg)
               /\ UNCHANGED <<gauges, activeCallsCounter, pollTime, metricsThrew,
                              recorded, steps, histVars>>
    /\ pc' = "then"
    /\ inflight' = inflight \ {[op |-> "getSystemStatus", cycle |-> cycles]}
    /\ UNCHANGED <<variant, cfg, cycles, sent, transportFailed,
                   scrapeVars, procVars, http, acqClient>>

\* getSystemStatus resolves; the rest of checkStatus runs
GetSystemStatusResolve ==
    /\ pc = "getSystemStatus"
    /\ \E s \in LoopSnapshots :
        /\ systemStatus' = s
        /\ acquired' = TRUE
        /\ p' = checkStatusSettles(variant, s, cfg)
        /\ IF variant = "metrics" THEN
               LET m == updateMetrics(gauges, activeCallsCounter, s) IN
               /\ pollTime' = pollTime + 1
               /\ gauges' = m.gauges
               /\ activeCallsCounter' = m.counter
               /\ metricsThrew' = m.threw
               /\ recorded' = TRUE
               /\ steps' = steps \o <<"stopTimer", "updateMetrics">>
               /\ recCount' = recCount + 1
               /\ sumCalls' = IF m.threw THEN sumCalls ELSE sumCalls + s.CallsActive
               /\ allOk' = (allOk /\ ~m.threw)
               /\ prev' = cur
               /\ cur' = s
           ELSE
               UNCHANGED <<gauges, activeCallsCounter, pollTime, metricsThrew,
                           recorded, steps, histVars>>
    /\ pc' = "then"
    /\ inflight' = inflight \ {[op |-> "getSystemStatus", cycle |-> cycles]}
    /\ UNCHANGED <<variant, cfg, cycles, sent, transportFailed,
                   scrapeVars, procVars, http, acqClient>>

\* GetSystemStatusReject with the timer stopped after the await instead of in
\* a finally block: a failed fetch is not observed
GetSystemStatusRejectNoFinally ==
    /\ pc = "getSystemStatus"
    /\ \E e \in AcquisitionErrors : p' = Rejected(e)
    /\ pc' = "then"
    /\ inflight' = inflight \ {[op |-> "getSystemStatus", cycle |-> cycles]}
    /\ UNCHANGED <<variant, cfg, cycles, systemStatus, acquired, sent,
                   transportFailed, gauges, activeCallsCounter, pollTime,
                   metricsThrew, recorded, steps, histVars, scrapeVars, procVars,
                   http, acqClient>>

\* GetSystemStatusReject with the gauges cleared when the fetch fails
GetSystemStatusRejectResetsGauges ==
    /\ pc = "getSystemStatus"
    /\ \E e \in AcquisitionErrors : p' = Rejected(e)
    /\ pollTime' = IF variant = "metrics" THEN pollTime + 1 ELSE pollTime
    /\ gauges' = [n \in GaugeNames |-> 0]
    /\ pc' = "then"
    /\ inflight' = inflight \ {[op |-> "getSystemStatus", cycle |-> cycles]}
    /\ steps' = IF variant = "metrics" THEN Append(steps, "stopTimer") ELSE steps
    /\ UNCHANGED <<variant, cfg, cycles, systemStatus, acquired, sent,
                   transportFailed, activeCallsCounter, metricsThrew, recorded,
                   histVars, scrapeVars, procVars, http, acqClient>>

\* getSystemStatus rejects; checkStatus rejects with the same error
GetSystemStatusReject ==
    /\ pc = "getSystemStatus"
    /\ \E e \in AcquisitionErrors : p' = Rejected(e)
    /\ pollTime' = IF variant = "metrics" THEN pollTime + 1 ELSE pollTime
    /\ pc' = "then"
    /\ inflight' = inflight \ {[op |-> "getSystemStatus", cycle |-> cycles]}
    /\ steps' = IF variant = "metrics" THEN Append(steps, "stopTimer") ELSE steps
    /\ UNCHANGED <<variant, cfg, cycles, systemStatus, acquired, sent,
                   transportFailed, gauges, activeCallsCounter, metricsThrew,
                   recorded,
                   histVars, scrapeVars, procVars, http, acqClient>>

\* ThenReportSuccess with the GET not awaited (the callback does not return
\* the request's promise)
ThenReportSuccessNotAwaited ==
    /\ pc = "then"
    /\ p.state = "resolved"
    /\ sent' = Append(sent, SuccessRequest)
    /\ inflight' = inflight \cup {[op |-> "GET", cycle |-> cycles]}
    /\ p' = Resolved
    /\ pc' = "awaited"
    /\ steps' = Append(steps, "GET")
    /\ UNCHANGED <<variant, cfg, cycles, systemStatus, acquired, transportFailed,
                   gauges, activeCallsCounter, pollTime, metricsThrew, recorded,
                   histVars, scrapeVars, procVars, http, acqClient>>

\* .then(() => reportSuccess(cfg)): the GET is issued and awaited
ThenReportSuccess ==
    /\ pc = "then"
    /\ p.state = "resolved"
    /\ sent' = Append(sent, SuccessRequest)
    /\ inflight' = inflight \cup {[op |-> "GET", cycle |-> cycles]}
    /\ p' = Pending
    /\ pc' = "get"
    /\ steps' = Append(steps, "GET")
    /\ UNCHANGED <<variant, cfg, cycles, systemStatus, acquired, transportFailed,
                   gauges, activeCallsCounter, pollTime, metricsThrew, recorded,
                   histVars, scrapeVars, procVars, http, acqClient>>

\* .catch((e) => reportFailure(cfg, e)): the POST is issued and awaited
CatchReportFailure ==
    /\ pc \in {"then", "catch"}
    /\ p.state = "rejected"
    /\ sent' = Append(sent, FailureRequest(p.value))
    /\ inflight' = inflight \cup {[op |-> "POST", cycle |-> cycles]}
    /\ p' = Pending
    /\ pc' = "post"
    /\ steps' = Append(steps, "POST")
    /\ UNCHANGED <<variant, cfg, cycles, systemStatus, acquired, transportFailed,
                   gauges, activeCallsCounter, pollTime, metricsThrew, recorded,
                   histVars, scrapeVars, procVars, http, acqClient>>

\* axios.get resolves
GetResolve ==
    /\ pc = "get"
    /\ p' = Resolved
    /\ inflight' = inflight \ {[op |-> "GET", cycle |-> cycles]}
    /\ pc' = "awaited"
    /\ UNCHANGED <<variant, cfg, cycles, systemStatus, acquired, sent,
                   transportFailed, gauges, activeCallsCounter, pollTime,
                   metricsThrew, recorded,
                   steps, histVars, scrapeVars, procVars, http, acqClient>>

\* axios.get rejects: reportSuccess rejects, the .catch stage is next
GetReject ==
    /\ pc = "get"
    /\ \E e \in TransportErrors : p' = Rejected(e)
    /\ inflight' = inflight \ {[op |-> "GET", cycle |-> cycles]}
    /\ transportFailed' = TRUE
    /\ pc' = "catch"
    /\ UNCHANGED <<variant, cfg, cycles, systemStatus, acquired, sent, gauges,
                   activeCallsCounter, pollTime, metricsThrew, recorded,
                   steps, histVars, scrapeVars, procVars, http, acqClient>>

\* axios.post resolves
PostResolve ==
    /\ pc = "post"
    /\ p' = Resolved
    /\ inflight' = inflight \ {[op |-> "POST", cycle |-> cycles]}
    /\ pc' = "awaited"
    /\ UNCHANGED <<variant, cfg, cycles, systemStatus, acquired, sent,
                   transportFailed, gauges, activeCallsCounter, pollTime,
                   metricsThrew, recorded,
                   steps, histVars, scrapeVars, procVars, http, acqClient>>

\* axios.post rejects: reportFailure rejects, the awaited chain rejects, and
\* the await in the loop throws out of the loop
PostReject ==
    /\ pc = "post"
    /\ \E e \in TransportErrors : p' = Rejected(e)
    /\ inflight' = inflight \ {[op |-> "POST", cycle |-> cycles]}
    /\ transportFailed' = TRUE
    /\ pc' = "rejected"
    /\ UNCHANGED <<variant, cfg, cycles, systemStatus, acquired, sent, gauges,
                   activeCallsCounter, pollTime, metricsThrew, recorded,
                   steps, histVars, scrapeVars, procVars, http, acqClient>>

\* if (cfg.Interval !== null) await sleep(cfg.Interval) else break
AfterReport ==
    /\ pc = "awaited"
    /\ pc' = IF cfg.Interval # Null THEN "sleep" ELSE "stopped"
    /\ UNCHANGED <<variant, cfg, cycles, systemStatus, acquired, p, sent,
                   transportFailed, gauges, activeCallsCounter, pollTime,
                   metricsThrew, recorded, inflight,
                   steps, histVars, scrapeVars, procVars, http, acqClient>>

\* the sleep timer fires
SleepElapsed ==
    /\ pc = "sleep"
    /\ pc' = "top"
    /\ UNCHANGED <<variant, cfg, cycles, systemStatus, acquired, p, sent,
                   transportFailed, gauges, activeCallsCounter, pollTime,
                   metricsThrew, recorded, inflight,
                   steps, histVars, scrapeVars, procVars, http, acqClient>>

\* GET /metrics: the handler answers with the current value of every series
MetricsRead ==
    /\ variant = "metrics"
    /\ exitCode = Undefined
    /\ reads < MaxReads
    /\ reads' = reads + 1
    /\ scrape' = gauges
    /\ scrapeAt' = recCount
    /\ UNCHANGED <<variant, cfg, pc, cycles, systemStatus, acquired, p, sent,
                   transportFailed, gauges, activeCallsCounter, pollTime,
                   metricsThrew, recorded, inflight, steps, histVars, procVars,
                   http, acqClient>>

\* the loop has left through break and nothing else keeps the event loop
\* alive: the process ends with status 0 (the metrics program's server, once
\* listening, keeps it alive)
ExitAfterStop ==
    /\ pc = "stopped"
    /\ variant = "console"
    /\ exitCode = Undefined
    /\ exitCode' = 0
    /\ UNCHANGED <<variant, cfg, pc, cycles, systemStatus, acquired, p, sent,
                   transportFailed, gauges, activeCallsCounter, pollTime,
                   metricsThrew, recorded, inflight, steps, histVars, scrapeVars,
                   clientsCreated, http, acqClient>>

\* the promise of poll() / main() rejected and nothing handles it: node 16
\* ends the process with status 1
ExitOnUnhandledRejection ==
    /\ pc \in {"rejected", "connectFailed"}
    /\ exitCode = Undefined
    /\ exitCode' = 1
    /\ UNCHANGED <<variant, cfg, pc, cycles, systemStatus, acquired, p, sent,
                   transportFailed, gauges, activeCallsCounter, pollTime,
                   metricsThrew, recorded, inflight, steps, histVars, scrapeVars,
                   clientsCreated, http, acqClient>>

Next ==
    \/ CreateClientResolve
    \/ CreateClientReject
    \/ StartCycle
    \/ GetSystemStatusResolve
    \/ GetSystemStatusReject
    \/ ThenReportSuccess
    \/ CatchReportFailure
    \/ GetResolve
    \/ GetReject
    \/ PostResolve
    \/ PostReject
    \/ AfterReport
    \/ SleepElapsed
    \/ MetricsRead
    \/ ExitAfterStop
    \/ ExitOnUnhandledRejection

Spec == Init /\ [][Next]_vars

-----------------------------------------------------------------------------
(* The evaluator on its own: checkStatus of the console program applied    *)
(* once to each snapshot of EvalSnapshots under each configuration         *)

InitEval ==
    /\ variant = "console"
    /\ cfg \in Configs
    /\ pc = "evalInput"
    /\ cycles = 0
    /\ systemStatus \in EvalSnapshots
    /\ acquired = TRUE
    /\ p = Pending
    /\ sent = << >>
    /\ transportFailed = FALSE
    /\ gauges = [n \in GaugeNames |-> 0]
    /\ activeCallsCounter = 0
    /\ pollTime = 0
    /\ metricsThrew = FALSE
    /\ recorded = FALSE
    /\ inflight = {}
    /\ steps = << >>
    /\ recCount = 0
    /\ sumCalls = 0
    /\ allOk = TRUE
    /\ cur = NoStatus
    /\ prev = NoStatus
    /\ scrape = [n \in GaugeNames |-> 0]
    /\ reads = 0
    /\ scrapeAt = 0
    /\ exitCode = Undefined
    /\ clientsCreated = 1
    /\ http = 0
    /\ acqClient = 0

EvalApply ==
    /\ pc = "evalInput"
    /\ p' = checkStatusSettles(variant, systemStatus, cfg)
    /\ pc' = "evalDone"
    /\ UNCHANGED <<variant, cfg, cycles, systemStatus, acquired, sent,
                   transportFailed, gauges, activeCallsCounter, pollTime,
                   metricsThrew, recorded, inflight,
                   steps, histVars, scrapeVars, procVars, http, acqClient>>

NextEval == EvalApply

SpecEval == InitEval /\ [][NextEval]_vars

-----------------------------------------------------------------------------
(* Properties *)

\* every request of the current cycle has been answered and none is to come
ReportsComplete ==
    /\ cycles >= 1
    /\ pc \in {"awaited", "sleep", "stopped", "rejected", "top"}

\* the acquisition of the current cycle failed and its report has been issued
AcquisitionFailedAndReported ==
    /\ cycles >= 1
    /\ ~acquired
    /\ pc \in {"post", "awaited", "sleep", "stopped", "rejected", "top"}

\* C1: in every poll cycle exactly one report request (the success GET or the
\* failure POST, never both and never none) is issued to the health-check
\* endpoint, whatever the outcomes of acquisition, evaluation and transport.
C1_ExactlyOneReport ==
    /\ Len(sent) <= 1
    /\ ReportsComplete => Len(sent) = 1

\* C2: in interval mode a rejected health-check request never terminates the
\* poll loop: the loop is never left by a rejection.
C2_TransportFailureKeepsLoop ==
    (cfg.Interval # Null /\ transportFailed) => pc # "rejected"

\* C3: in a cycle in which a snapshot was acquired, a success GET is sent only
\* if the snapshot passes all checks, and for a snapshot violating a check every
\* request sent is the failure POST carrying the evaluator's reason.
C3_SignalFollowsVerdict ==
    acquired =>
        LET verdict == Evaluate(systemStatus, cfg) IN
        \A i \in 1..Len(sent) :
            /\ sent[i].method = "GET" => verdict.ok
            /\ ~verdict.ok =>
                   sent[i] = [method |-> "POST", url |-> "/ping/uid/fail",
                              body |-> verdict.reason]

\* C4: in a cycle where getSystemStatus fails, the one request sent is the
\* failure POST carrying the acquisition error, and in interval mode the loop
\* goes on to sleep and to the next cycle.
C4_AcquisitionErrorNonFatal ==
    AcquisitionFailedAndReported =>
        /\ Len(sent) = 1
        /\ sent[1].method = "POST"
        /\ sent[1].body \in {"Error: connect ECONNREFUSED", "unauthorized"}
        /\ cfg.Interval # Null => pc # "rejected"

\* the eight checks of the evaluator's contract, by position
Violates(k, s, c) ==
    CASE k = 1 -> ~s.Activated
      [] k = 2 -> c.pbxMinExtensions # Undefined
                  /\ ~(s.ExtensionsRegistered >= c.pbxMinExtensions)
      [] k = 3 -> s.HasNotRunningServices
      [] k = 4 -> s.HasUnregisteredSystemExtensions
      [] k = 5 -> c.pbxMinTrunks # Undefined
                  /\ ~(s.TrunksRegistered >= c.pbxMinTrunks)
      [] k = 6 -> ~(s.PhysicalMemoryUsage <= 75)
      [] k = 7 -> ~(s.CpuUsage <= 75)
      [] k = 8 -> ~(s.DiskUsage <= 75)

Violated(s, c) == {k \in 1..8 : Violates(k, s, c)}

\* the first violated check, 0 when there is none
FirstViolated(s, c) ==
    IF Violated(s, c) = {} THEN 0
    ELSE CHOOSE k \in Violated(s, c) : \A j \in Violated(s, c) : k <= j

\* the reasons that name check k
ReasonsNaming(k) ==
    CASE k = 1 -> {"System is not activated"}
      [] k = 2 -> {"Expected at least " \o ToString(m)
                   \o " extensions to be registered. Found " \o ToString(n) :
                   m \in 0..9, n \in 0..9}
      [] k = 3 -> {"System reports failed services"}
      [] k = 4 -> {"System reports unregistered system extension"}
      [] k = 5 -> {"Expected at least " \o ToString(m)
                   \o " trunks to be registered. Found " \o ToString(n) :
                   m \in 0..9, n \in 0..9}
      [] k = 6 -> {"Physical memory usage is at " \o ToString(v) : v \in 0..100}
      [] k = 7 -> {"CPU usage is at " \o ToString(v) : v \in 0..100}
      [] k = 8 -> {"Disk usage is at " \o ToString(v) : v \in 0..100}

\* C5: the evaluator always returns a verdict, and the verdict is healthy if
\* and only if the snapshot violates none of the eight checks (boundaries
\* inclusive, an unconfigured minimum imposing nothing).
C5_HealthyIffAllChecksPass ==
    pc = "evalDone" =>
        /\ p.state \in {"resolved", "rejected"}
        /\ p.state = "resolved" <=> Violated(systemStatus, cfg) = {}

\* C5 witness: a healthy verdict on the boundaries (registered extensions equal
\* to the minimum, every usage at 75) with the trunks minimum unconfigured and
\* fewer trunks registered than the minimum used elsewhere.
C5_Witness ==
    /\ pc = "evalDone"
    /\ p.state = "resolved"
    /\ cfg.pbxMinExtensions = systemStatus.ExtensionsRegistered
    /\ cfg.pbxMinTrunks = Undefined
    /\ systemStatus.TrunksRegistered = 1
    /\ systemStatus.PhysicalMemoryUsage = 75
    /\ systemStatus.CpuUsage = 75
    /\ systemStatus.DiskUsage = 75

\* C6: the reason reported is that of the first violated check in the order
\* activation, extensions, services, system extensions, trunks, memory, CPU,
\* disk; with activation false it is the non-activation reason.
C6_FirstViolatedCheckReported ==
    pc = "evalDone" =>
        LET k == FirstViolated(systemStatus, cfg) IN
        /\ k = 0 => p.state = "resolved"
        /\ k > 0 =>
              /\ p.state = "rejected"
              /\ p.value.type = "string"
              /\ p.value.text \in ReasonsNaming(k)
        /\ ~systemStatus.Activated => p.value.text = "System is not activated"

\* C6 witness: a snapshot violating the services check and later checks too
\* (trunks and disk), evaluated.
C6_Witness ==
    /\ pc = "evalDone"
    /\ FirstViolated(systemStatus, cfg) = 3
    /\ {5, 8} \subseteq Violated(systemStatus, cfg)
    /\ p.value.text = "System reports failed services"

\* C7: when the only violated check is a usage check, the reason carries that
\* measure's own percentage.
C7_UsageReasonCarriesOwnValue ==
    pc = "evalDone" =>
        /\ Violated(systemStatus, cfg) = {6} =>
              p.value.text = "Physical memory usage is at "
                             \o ToString(systemStatus.PhysicalMemoryUsage)
        /\ Violated(systemStatus, cfg) = {7} =>
              p.value.text = "CPU usage is at " \o ToString(systemStatus.CpuUsage)
        /\ Violated(systemStatus, cfg) = {8} =>
              p.value.text = "Disk usage is at " \o ToString(systemStatus.DiskUsage)

\* C8: in single-shot mode the loop starts one cycle only and, once the report
\* of that cycle has been answered, stops through the loop's own exit whatever
\* the outcome; in interval mode the loop never stops.
C8_SingleShotOneCycle ==
    /\ cfg.Interval = Null =>
          /\ cycles <= 1
          /\ pc # "top" \/ cycles = 0
          /\ ReportsComplete => pc \in {"awaited", "stopped"}
    /\ cfg.Interval # Null => pc # "stopped"

\* C9 (state part): at most one request is in flight, it belongs to the current
\* cycle, none is in flight between the steps of the loop, and a report has
\* been issued only once acquisition and metrics recording have finished.
C9_NoOverlap ==
    /\ Cardinality(inflight) <= 1
    /\ \A r \in inflight : r.cycle = cycles
    /\ pc \in {"top", "then", "catch", "awaited", "sleep", "stopped"} =>
           inflight = {}
    /\ Len(sent) > 0 =>
           /\ \A r \in inflight : r.op # "getSystemStatus"
           /\ (variant = "metrics" /\ acquired) => recorded
           /\ variant = "metrics" => pollTime = cycles

\* C9 (step part): a cycle begins only at the head of the loop with nothing in
\* flight; the head is reached again only from the elapsed sleep; the sleep
\* begins only after the report of the cycle has been answered.
C9_StepOrder ==
    /\ cycles' # cycles => (pc = "top" /\ inflight = {})
    /\ (pc' = "top" /\ pc # "top" /\ cycles >= 1) => pc = "sleep"
    /\ (pc' = "sleep" /\ pc # "sleep") =>
           (pc = "awaited" /\ inflight = {} /\ Len(sent) >= 1)

\* C9: poll cycles never overlap and keep their step order.
C9_CyclesSequential == []C9_NoOverlap /\ [][C9_StepOrder]_vars

\* C9 witness: the report of a second cycle is in flight.
C9_Witness ==
    /\ cycles = 2
    /\ pc = "get"
    /\ inflight = {[op |-> "GET", cycle |-> 2]}

\* C10: an error thrown by updateMetrics does not change the report: in the
\* metrics program the first request of a cycle with an acquired snapshot is
\* the success GET whether or not updateMetrics threw, and a cycle in which it
\* threw leaves the loop only through a transport failure.
C10_MetricsErrorKeepsReport ==
    /\ (variant = "metrics" /\ acquired /\ Len(sent) >= 1) =>
           sent[1] = SuccessRequest
    /\ (metricsThrew /\ ~transportFailed) => pc \notin {"catch", "post", "rejected"}

\* C10 witness: updateMetrics threw, the success GET was sent and answered, and
\* the loop sleeps before its next cycle.
C10_Witness ==
    /\ metricsThrew
    /\ sent = <<SuccessRequest>>
    /\ pc = "sleep"

\* the gauge statements of updateMetrics
SetSteps == {i \in DOMAIN UpdateSteps : UpdateSteps[i].op = "set"}

\* gauge values g carry, for every field present in snapshot s, the value of s
CarriesSnapshot(g, s) ==
    \A i \in SetSteps :
        s[UpdateSteps[i].field] # Undefined =>
            g[UpdateSteps[i].series] = s[UpdateSteps[i].field]

\* C11: in the metrics program pbx_polls receives exactly one observation in
\* every cycle, whether the fetch resolves or rejects; the timer is started
\* before the fetch and stopped right after it, before updateMetrics and before
\* any report.
C11_OneObservationPerCycle ==
    variant = "metrics" =>
        /\ pollTime = IF pc = "getSystemStatus" THEN cycles - 1 ELSE cycles
        /\ Len(steps) >= 2 =>
               (steps[1] = "startTimer" /\ steps[2] = "getSystemStatus")
        /\ Len(steps) >= 3 => steps[3] = "stopTimer"
        /\ \A i \in 1..Len(steps) :
               /\ steps[i] \in {"updateMetrics", "GET", "POST"} => i > 3
               /\ steps[i] = "stopTimer" => i = 3

\* C11 witness: the second cycle's fetch rejected, the failure POST is in
\* flight, and pbx_polls holds two observations.
C11_Witness ==
    /\ variant = "metrics"
    /\ cycles = 2
    /\ ~acquired
    /\ pc = "post"
    /\ pollTime = 2

\* C12 (state part): while every recording so far succeeded, the counter is the
\* sum of the call counts of the recorded snapshots and every gauge is the
\* field of the most recently recorded snapshot.
C12_SumAndLastValue ==
    (variant = "metrics" /\ allOk /\ recCount >= 1) =>
        /\ activeCallsCounter = sumCalls
        /\ \A i \in SetSteps :
               gauges[UpdateSteps[i].series] = cur[UpdateSteps[i].field]

\* C12 (step part): the counter never decreases, and recording again the
\* snapshot recorded last leaves the gauges as they are and adds the snapshot's
\* call count to the counter.
C12_RecordAgain ==
    /\ activeCallsCounter' >= activeCallsCounter
    /\ (recCount >= 1 /\ recCount' = recCount + 1 /\ allOk' /\ cur' = cur) =>
           /\ gauges' = gauges
           /\ activeCallsCounter' = activeCallsCounter + cur.CallsActive

\* C12: recording is cumulative for the counter and last-value for the gauges.
C12_CumulativeCounterLastValueGauges ==
    []C12_SumAndLastValue /\ [][C12_RecordAgain]_vars

\* C12 witness: the same snapshot with two active calls recorded twice.
C12_Witness ==
    /\ recCount = 2
    /\ allOk
    /\ prev = cur
    /\ cur.CallsActive = 2
    /\ activeCallsCounter = 4

\* C13: after updateMetrics has run on a snapshot, every series whose field is
\* present in the snapshot holds the snapshot's value, wherever the missing
\* field stands in the update sequence.
C13_OnlyMissingSeriesSkipped ==
    (variant = "metrics" /\ recorded) => CarriesSnapshot(gauges, systemStatus)

\* C14: a /metrics response carries either the values of the snapshot recorded
\* last or those of the snapshot recorded before it (the initial zeros when
\* there is none), never a mix of the two.
C14_ReadNeverMixed ==
    (reads >= 1 /\ scrapeAt = recCount) =>
        \/ recCount = 0 /\ scrape = [n \in GaugeNames |-> 0]
        \/ recCount >= 1 /\ CarriesSnapshot(scrape, cur)
        \/ recCount = 1 /\ scrape = [n \in GaugeNames |-> 0]
        \/ recCount >= 2 /\ CarriesSnapshot(scrape, prev)

\* C15: a failed createClient does not end the loop: it is never left before
\* its first cycle, and the process does not end without a report sent.
C15_ConnectFailureSurfaces ==
    /\ pc # "connectFailed"
    /\ (http = 0 /\ exitCode # Undefined) => Len(sent) >= 1

\* C16: in single-shot mode, once the loop has stopped after its cycle, the
\* process has ended with status 0 or is free to do so: nothing keeps it alive.
C16_SingleShotExitsZero ==
    (cfg.Interval = Null /\ pc = "stopped") =>
        (exitCode = 0 \/ ENABLED ExitAfterStop)

\* C17: within a cycle whose fetch has not resolved, no step changes a gauge or
\* the counter or invokes updateMetrics; the only metrics change is the one
\* observation of pbx_polls added when the fetch rejects.
C17_FailedCycleStep ==
    (cycles' = cycles /\ ~acquired') =>
        /\ gauges' = gauges
        /\ activeCallsCounter' = activeCallsCounter
        /\ recCount' = recCount
        /\ recorded' = recorded
        /\ pollTime' = IF variant = "metrics" /\ pc = "getSystemStatus"
                          /\ pc' = "then"
                       THEN pollTime + 1 ELSE pollTime

C17_FailedAcquisitionKeepsMetrics == [][C17_FailedCycleStep]_vars

\* C17 witness: after a first cycle that recorded CPU usage 80, the second
\* cycle's fetch rejected and its report was answered: the gauge still holds 80
\* and pbx_polls holds two observations.
C17_Witness ==
    /\ variant = "metrics"
    /\ cycles = 2
    /\ ~acquired
    /\ pc = "awaited"
    /\ recCount = 1
    /\ gauges["pbx_cpu_usage"] = 80
    /\ pollTime = 2

\* C18: createClient is called once; every cycle starts after it resolved and
\* issues its acquisition on that one client, also after failed cycles.
C18_OneConnection ==
    /\ clientsCreated = 1
    /\ pc = "createClient" => cycles = 0
    /\ cycles >= 1 => (http = 1 /\ acqClient = 1)

\* C18 witness: in the metrics program the first two cycles' fetches rejected
\* (nothing was recorded) and the third cycle's fetch is in flight on client 1.
C18_Witness ==
    /\ variant = "metrics"
    /\ cycles = 3
    /\ recCount = 0
    /\ pc = "getSystemStatus"
    /\ acqClient = 1
    /\ clientsCreated = 1

\* C19: a failure POST is issued only in a cycle whose acquisition failed or
\* whose snapshot violates a check, and its body is an acquisition error or an
\* evaluator reason.
C19_FailureOnlyForPbxFailure ==
    \A i \in 1..Len(sent) :
        sent[i].method = "POST" =>
            /\ ~acquired \/ Violated(systemStatus, cfg) # {}
            /\ sent[i].body \in
                   {"Error: connect ECONNREFUSED", "unauthorized"}
                   \cup UNION {ReasonsNaming(k) : k \in 1..8}

====
